---- MODULE Spec2Model ----
(***************************************************************************)
(* A model of the emission and export core of the logfire client:         *)
(*   - the resilient (fallback) span exporter: export and shutdown,       *)
(*   - the LogfireSpan / FastLogfireSpan scope state machines of          *)
(*     logfire/_main.py, against an underlying tracer, span handle and    *)
(*     context API.                                                       *)
(*   - the attribute pipeline of Logfire.span, Logfire.log, the level     *)
(*     methods, the instrument wrapper and the auto-trace path.           *)
(*   - ParamManager.load_param of logfire/_config_params.py.              *)
(* Each part has its own specification (SpecExport, SpecSpan, SpecEmit,   *)
(* SpecParam); the variables of the other parts stay at their initial     *)
(* values.                                                                *)
(***************************************************************************)
EXTENDS Integers, Sequences, FiniteSets, TLC

VARIABLES
    \* ---- the resilient exporter ----
    ex_pc,          \* call slot -> "idle" | "primary" | "fallback" | "return" | "done"
    ex_batch,       \* call slot -> the batch passed to export
    ex_id,          \* call slot -> the number of this export call (0: none yet)
    ex_result,      \* call slot -> what the primary's export did: "none" | "SUCCESS" | "FAILURE" | "raise"
    ex_exc,         \* call slot -> the exception the primary raised ("none": none)
    ex_ret,         \* call slot -> what export returned to its caller ("none": nothing yet)
    ex_raised,      \* call slot -> the exception that reached the caller ("none": none)
    primary_log,    \* the batches the primary sink accepted, in order: <<[id, batch]>>
    fallback_log,   \* the batches the fallback sink received, in order: <<[id, batch]>>
    completed,      \* the export calls that have returned or raised
    nexports,       \* export calls made so far
    sd,             \* shutdown: [called, primary, fallback, raised]
    \* ---- one LogfireSpan, one FastLogfireSpan, the tracer and the context ----
    made,           \* the LogfireSpan has been constructed (Logfire.span returned)
    self_span,      \* LogfireSpan._span: 0 (None) or the index of its handle in spans
    self_token,     \* LogfireSpan._token: 0 (None) or the context token it holds
    end_on_exit,    \* LogfireSpan.end_on_exit
    otlp_attributes,\* LogfireSpan._otlp_attributes: the pending attribute map
    format_kwargs,  \* LogfireSpan._format_args['kwargs']: the bindings of the template
    spans,          \* the span handles the tracer has started, in order
    ctx,            \* the context API: [attached: tokens handed out, detached: tokens detached]
    fast,           \* the FastLogfireSpan: [made, span, token, exited]
    clock,          \* operations performed so far (the time stamps of the model)
    last,           \* the last call: [op, arg (key and value of set_attribute),
                    \* exc (the exception the scope exits with), raised]
    \* ---- one Logfire instance and the attributes it hands to the tracer ----
    lf,             \* the Logfire instance in use: [tags, sample_rate, via]
    em,             \* the last call on it: [op, level, input, raised, emitted,
                    \* attributes, warnings, span]
    \* ---- the environment, one ParamManager and the last load_param call ----
    environ,        \* os.environ: variable name -> its value (None: not set)
    config_from_file, \* ParamManager.config_from_file
    lp              \* the last load_param call: [name, runtime, value, raised,
                    \* source, consulted]

exportVars == <<ex_pc, ex_batch, ex_id, ex_result, ex_exc, ex_ret, ex_raised,
                primary_log, fallback_log, completed, nexports, sd>>

spanVars == <<made, self_span, self_token, end_on_exit, otlp_attributes,
              format_kwargs, spans, ctx, fast, clock, last>>

emitVars == <<lf, em>>

paramVars == <<environ, config_from_file, lp>>

vars == <<exportVars, spanVars, emitVars, paramVars>>

\* ------------------------------------------------------------------ bounds
MaxCalls == 2       \* export calls in flight at once
MaxExports == 2     \* export calls in one behaviour
MaxClock == 6       \* operations on the spans in one behaviour

Calls == 1..MaxCalls

\* The finished spans a batch may hold, and the batches of the model.
SpanIds == {"s1", "s2"}
Batches == {<<"s1">>, <<"s1", "s2">>}

\* What a sink's export may do (tests: ExceptionExporter raises, FailureExporter
\* returns FAILURE).
PrimaryOutcomes == {"SUCCESS", "FAILURE", "raise"}
PrimaryExceptions == {"BadExporter", "Timeout"}

\* ------------------------------------------------- the resilient exporter

\* Mutant: a raising primary is re-raised at once, with no fallback write.
AfterPrimaryRaiseSkipsFallback(outcome) ==
    IF outcome = "FAILURE" THEN "fallback" ELSE "return"

\* Mutant: only an exception sends the batch to the fallback; a FAILURE result
\* is returned from directly.
AfterPrimaryFailureSkipsFallback(outcome) ==
    IF outcome = "raise" THEN "fallback" ELSE "return"

\* Mutant: every batch is written to the fallback, accepted by the primary or
\* not.
AfterPrimaryAlwaysFallback(outcome) == "fallback"

\* export, after the primary attempt: the fallback write is next unless the
\* primary succeeded.
AfterPrimary(outcome) ==
    IF outcome = "SUCCESS" THEN "return" ELSE "fallback"

\* Mutant: export forwards what a buffer shared by all calls holds, here the
\* batch of another call.
FallbackBatchShared(batch) == <<"s1">>

\* The batch export forwards to the fallback sink: the batch it was given.
FallbackBatch(batch) == batch

\* Mutant: export hands the primary's own result back to the caller.
ExportOutcomePassesResult(outcome, exc) ==
    IF outcome = "raise"
    THEN [ret |-> "none", raised |-> exc]
    ELSE [ret |-> outcome, raised |-> "none"]

\* What export gives its caller: the primary's exception when it raised,
\* success otherwise (a FAILURE result is absorbed).
ExportOutcome(outcome, exc) ==
    IF outcome = "raise"
    THEN [ret |-> "none", raised |-> exc]
    ELSE [ret |-> "SUCCESS", raised |-> "none"]

\* Mutant: the two shutdowns run in sequence with no finally, so a raising
\* primary shutdown skips the fallback's.
FallbackShutdownSkippedOnRaise(primaryRaised) == ~primaryRaised

\* shutdown: the fallback's shutdown runs whatever the primary's shutdown did.
FallbackShutdownRuns(primaryRaised) == TRUE

InitExport ==
    /\ ex_pc = [c \in Calls |-> "idle"]
    /\ ex_batch = [c \in Calls |-> <<>>]
    /\ ex_id = [c \in Calls |-> 0]
    /\ ex_result = [c \in Calls |-> "none"]
    /\ ex_exc = [c \in Calls |-> "none"]
    /\ ex_ret = [c \in Calls |-> "none"]
    /\ ex_raised = [c \in Calls |-> "none"]
    /\ primary_log = <<>>
    /\ fallback_log = <<>>
    /\ completed = {}
    /\ nexports = 0
    /\ sd = [called |-> FALSE, primary |-> 0, fallback |-> 0, raised |-> "none"]

\* A caller invokes export(batch).
ExportCall(c, b) ==
    /\ ex_pc[c] = "idle"
    /\ nexports < MaxExports
    /\ nexports' = nexports + 1
    /\ ex_pc' = [ex_pc EXCEPT ![c] = "primary"]
    /\ ex_batch' = [ex_batch EXCEPT ![c] = b]
    /\ ex_id' = [ex_id EXCEPT ![c] = nexports + 1]
    /\ UNCHANGED <<ex_result, ex_exc, ex_ret, ex_raised, primary_log, fallback_log,
                   completed, sd>>

\* The primary sink's export runs: it accepts the batch, returns FAILURE, or
\* raises.
PrimaryExport(c, outcome, e) ==
    /\ ex_pc[c] = "primary"
    /\ ex_result' = [ex_result EXCEPT ![c] = outcome]
    /\ ex_exc' = [ex_exc EXCEPT ![c] = IF outcome = "raise" THEN e ELSE "none"]
    /\ primary_log' = IF outcome = "SUCCESS"
                      THEN Append(primary_log, [id |-> ex_id[c], batch |-> ex_batch[c]])
                      ELSE primary_log
    /\ ex_pc' = [ex_pc EXCEPT ![c] = AfterPrimary(outcome)]
    /\ UNCHANGED <<ex_batch, ex_id, ex_ret, ex_raised, fallback_log, completed,
                   nexports, sd>>

\* The fallback sink's export runs on the batch of this call.
FallbackExport(c) ==
    /\ ex_pc[c] = "fallback"
    /\ fallback_log' = Append(fallback_log,
                              [id |-> ex_id[c], batch |-> FallbackBatch(ex_batch[c])])
    /\ ex_pc' = [ex_pc EXCEPT ![c] = "return"]
    /\ UNCHANGED <<ex_batch, ex_id, ex_result, ex_exc, ex_ret, ex_raised,
                   primary_log, completed, nexports, sd>>

\* export returns to, or raises into, its caller.
ExportReturn(c) ==
    /\ ex_pc[c] = "return"
    /\ LET out == ExportOutcome(ex_result[c], ex_exc[c]) IN
        /\ ex_ret' = [ex_ret EXCEPT ![c] = out.ret]
        /\ ex_raised' = [ex_raised EXCEPT ![c] = out.raised]
        /\ completed' = completed \cup
               {[id |-> ex_id[c], batch |-> ex_batch[c], result |-> ex_result[c],
                 exc |-> ex_exc[c], ret |-> out.ret, raised |-> out.raised]}
    /\ ex_pc' = [ex_pc EXCEPT ![c] = "done"]
    /\ UNCHANGED <<ex_batch, ex_id, ex_result, ex_exc, primary_log, fallback_log,
                   nexports, sd>>

\* The caller is free to call export again.
ExportNext(c) ==
    /\ ex_pc[c] = "done"
    /\ ex_pc' = [ex_pc EXCEPT ![c] = "idle"]
    /\ ex_batch' = [ex_batch EXCEPT ![c] = <<>>]
    /\ ex_id' = [ex_id EXCEPT ![c] = 0]
    /\ ex_result' = [ex_result EXCEPT ![c] = "none"]
    /\ ex_exc' = [ex_exc EXCEPT ![c] = "none"]
    /\ ex_ret' = [ex_ret EXCEPT ![c] = "none"]
    /\ ex_raised' = [ex_raised EXCEPT ![c] = "none"]
    /\ UNCHANGED <<primary_log, fallback_log, completed, nexports, sd>>

\* shutdown(): the primary's shutdown, which may raise, then the fallback's.
Shutdown(primaryRaises) ==
    /\ ~sd.called
    /\ sd' = [called |-> TRUE,
              primary |-> sd.primary + 1,
              fallback |-> IF FallbackShutdownRuns(primaryRaises)
                           THEN sd.fallback + 1 ELSE sd.fallback,
              raised |-> IF primaryRaises THEN "ShutdownError" ELSE "none"]
    /\ UNCHANGED <<ex_pc, ex_batch, ex_id, ex_result, ex_exc, ex_ret, ex_raised,
                   primary_log, fallback_log, completed, nexports>>

\* ----------------------------------- spans: values, the tracer's span handle

\* Attribute keys a caller uses, and the values they take.  The message
\* template of the model's span mentions the field a.
Keys == {"a", "b"}
Vals == {"1", "2"}
Absent == "absent"
MsgKey == "logfire.msg"
TraceKey == "exception.logfire.trace"
AttrKeys == Keys \cup {MsgKey}

\* What a scope exits with: nothing, an Exception, or a BaseException that is
\* no Exception (a cancellation-class signal).
NoExc == "none"
Exceptions == {"ValueError"}
BaseExceptions == {"KeyboardInterrupt"}
ScopeExits == {NoExc} \cup Exceptions \cup BaseExceptions

\* isinstance(exc_value, Exception)
IsException(exc) == exc \in Exceptions

\* logfire_format(format_string, kwargs): the rendered message of the template
\* over the bindings; a field with no binding renders as the fallback text.
Render(kwargs) ==
    IF kwargs["a"] = Absent THEN "..." ELSE "a=" \o kwargs["a"]

\* f'{exc_type.__name__}: {exc_value}', every exception of the model carrying
\* the message "boom".
Describe(exc) == exc \o ": boom"

\* tracer.start_span(name, attributes): a recording span handle.
NewSpan(owner, attributes) ==
    [owner |-> owner, recording |-> TRUE, attributes |-> attributes,
     status |-> "UNSET", description |-> "", events |-> <<>>,
     end_time |-> 0, end_calls |-> 0, late |-> {}]

\* A call made on a handle that has stopped recording changes nothing of the
\* span; the handle notes the call.
Late(h, call) == [h EXCEPT !.late = @ \cup {call}]

\* span.is_recording()
is_recording(h) == h.recording

\* span.set_attribute(key, value)
Span_set_attribute(h, k, v) ==
    IF h.recording THEN [h EXCEPT !.attributes[k] = v]
    ELSE Late(h, <<"set_attribute", k>>)

\* span.set_status(Status(code, description))
Span_set_status(h, code, desc) ==
    IF h.recording THEN [h EXCEPT !.status = code, !.description = desc]
    ELSE Late(h, <<"set_status", code>>)

\* span.record_exception(exc, attributes=..., escaped=...)
Span_record_exception(h, exc, attrs, escaped) ==
    IF h.recording
    THEN [h EXCEPT !.events = Append(@, [exception |-> exc, attributes |-> attrs,
                                         escaped |-> escaped])]
    ELSE Late(h, <<"record_exception", exc>>)

\* span.end(): only the first call closes the span.
Span_end(h, now) ==
    LET h1 == [h EXCEPT !.end_calls = @ + 1] IN
    IF h.recording THEN [h1 EXCEPT !.recording = FALSE, !.end_time = now]
    ELSE Late(h1, <<"end", "">>)

\* ------------------------------------------------ _exit_span and the guards

\* _exit_span returns at once on a span that is not recording.
ExitSpanSkips(h) == ~is_recording(h)

\* Mutant: every exception a scope exits with is captured, a BaseException
\* too (the isinstance check is missing).
CapturesAnyException(exc) == exc # NoExc

\* _exit_span captures the exception: exc_type is not None and the value is
\* an Exception.
CapturesException(exc) == exc # NoExc /\ IsException(exc)

\* Where the capture of an exception may raise, nothing in _exit_span catching
\* it: nowhere; while the status description is built (str() of the exception
\* raises), before any call on the span; or while the structured trace or the
\* validation payload is built and serialised, after the status was set.
FailPoints == {"none", "describe", "trace"}

\* _exit_span(span, exc_type, exc_value, traceback).  The result is the handle
\* afterwards and the exception _exit_span itself raised.
exit_span(h, exc, fail) ==
    IF ExitSpanSkips(h) THEN [h |-> h, raised |-> NoExc]
    ELSE IF CapturesException(exc)
    THEN IF fail = "describe" THEN [h |-> h, raised |-> "RecorderError"]
         ELSE LET h1 == Span_set_status(h, "ERROR", Describe(exc)) IN
              IF fail = "trace"
              THEN [h |-> h1, raised |-> "RecorderError"]
              ELSE [h |-> Span_record_exception(h1, exc, {TraceKey}, TRUE),
                    raised |-> NoExc]
    ELSE [h |-> Span_set_status(h, "OK", ""), raised |-> NoExc]

\* __exit__ returns None: it never asks for the exception to be suppressed.
ExitSuppresses == FALSE

\* What the caller of a scope sees after __exit__: the exception __exit__
\* itself raised, else the scope's exception unless it was suppressed.
Propagated(exc, exitRaised) ==
    IF exitRaised # NoExc THEN exitRaised
    ELSE IF ExitSuppresses THEN NoExc ELSE exc

\* Mutant: a scope entry opens a span every time.
EnterStartsSpanAlways(span, handles) == TRUE

\* Mutant: a scope entry opens a fresh span when the old one was closed.
EnterStartsSpanWhenEnded(span, handles) ==
    span = 0 \/ ~handles[span].recording

\* __enter__: if self._span is None
EnterStartsSpan(span, handles) == span = 0

\* Mutant: every scope entry attaches a token, one being held or not.
EnterAttachesAlways(token) == TRUE

\* __enter__: if self._token is None
EnterAttaches(token) == token = 0

\* __exit__: if self._token is None: return
ExitIsNoop(token) == token = 0

\* Mutant: end() on a record never started returns silently.
EndErrorSwallowed == "none"

\* end(): if self._span is None: raise RuntimeError('Span has not been started')
EndError == "RuntimeError"

\* Mutant: end() ends the underlying span on every call.
EndClosesAlways(h) == TRUE

\* end(): if self._span.is_recording(): self._span.end()
EndCloses(h) == is_recording(h)

\* --------------------------------------------- LogfireSpan, FastLogfireSpan

NoArg == <<"", "">>

InitSpan ==
    /\ made = FALSE
    /\ self_span = 0
    /\ self_token = 0
    /\ end_on_exit = TRUE
    /\ otlp_attributes = [k \in AttrKeys |-> Absent]
    /\ format_kwargs = [k \in Keys |-> Absent]
    /\ spans = <<>>
    /\ ctx = [attached |-> 0, detached |-> <<>>]
    /\ fast = [made |-> FALSE, span |-> 0, token |-> 0, exited |-> FALSE]
    /\ clock = 0
    /\ last = [op |-> "none", arg |-> NoArg, exc |-> NoExc, raised |-> NoExc]

CalledWith(op, arg, exc, raised) ==
    /\ clock' = clock + 1
    /\ last' = [op |-> op, arg |-> arg, exc |-> exc, raised |-> raised]

Called(op, exc, raised) == CalledWith(op, NoArg, exc, raised)

\* Logfire.span(msg_template, a=v): Logfire._span builds the attributes and
\* the message, LogfireSpan.__init__ stores them; nothing is started.
Construct(v) ==
    /\ ~made
    /\ clock < MaxClock
    /\ made' = TRUE
    /\ self_span' = 0
    /\ self_token' = 0
    /\ end_on_exit' = TRUE
    /\ format_kwargs' = [k \in Keys |-> IF k = "a" THEN v ELSE Absent]
    /\ otlp_attributes' = [k \in AttrKeys |->
                             IF k = "a" THEN v
                             ELSE IF k = MsgKey THEN Render(format_kwargs')
                             ELSE Absent]
    /\ CalledWith("span", <<"a", v>>, NoExc, NoExc)
    /\ UNCHANGED <<spans, ctx, fast>>

\* LogfireSpan.__enter__
Enter ==
    /\ made
    /\ clock < MaxClock
    /\ end_on_exit' = TRUE
    /\ LET start == EnterStartsSpan(self_span, spans) IN
        /\ spans' = IF start THEN Append(spans, NewSpan("span", otlp_attributes))
                    ELSE spans
        /\ self_span' = IF start THEN Len(spans) + 1 ELSE self_span
    /\ LET attach == EnterAttaches(self_token) IN
        /\ ctx' = IF attach THEN [ctx EXCEPT !.attached = @ + 1] ELSE ctx
        /\ self_token' = IF attach THEN ctx.attached + 1 ELSE self_token
    /\ Called("enter", NoExc, NoExc)
    /\ UNCHANGED <<made, otlp_attributes, format_kwargs, fast>>

\* LogfireSpan.__exit__(exc_type, exc_value, traceback)
Exit(exc, fail) ==
    /\ made
    /\ clock < MaxClock
    /\ IF ExitIsNoop(self_token)
       THEN /\ Called("exit", exc, Propagated(exc, NoExc))
            /\ UNCHANGED <<self_token, ctx, spans>>
       ELSE LET r == exit_span(spans[self_span], exc, fail)
                h1 == Span_set_attribute(r.h, MsgKey, Render(format_kwargs))
                h2 == IF end_on_exit THEN Span_end(h1, clock + 1) ELSE h1
            IN
            /\ ctx' = [ctx EXCEPT !.detached = Append(@, self_token)]
            /\ self_token' = 0
            /\ spans' = [spans EXCEPT ![self_span] =
                            IF r.raised # NoExc THEN r.h ELSE h2]
            /\ Called("exit", exc, Propagated(exc, r.raised))
    /\ UNCHANGED <<made, self_span, end_on_exit, otlp_attributes, format_kwargs, fast>>

\* LogfireSpan.end()
End ==
    /\ made
    /\ clock < MaxClock
    /\ IF self_span = 0
       THEN /\ Called("end", NoExc, EndError)
            /\ UNCHANGED spans
       ELSE /\ spans' = IF EndCloses(spans[self_span])
                        THEN [spans EXCEPT ![self_span] = Span_end(@, clock + 1)]
                        ELSE spans
            /\ Called("end", NoExc, NoExc)
    /\ UNCHANGED <<made, self_span, self_token, end_on_exit, otlp_attributes,
                   format_kwargs, ctx, fast>>

\* Mutant: the bindings of the template are updated only while the record is
\* not started (the last line of set_attribute moved into the first branch).
SetAttributeForgetsBindings(k, v) ==
    /\ made
    /\ clock < MaxClock
    /\ IF self_span = 0
       THEN /\ otlp_attributes' = [otlp_attributes EXCEPT ![k] = v]
            /\ format_kwargs' = [format_kwargs EXCEPT ![k] = v]
            /\ UNCHANGED spans
       ELSE /\ spans' = [spans EXCEPT ![self_span] = Span_set_attribute(@, k, v)]
            /\ UNCHANGED <<otlp_attributes, format_kwargs>>
    /\ CalledWith("set_attribute", <<k, v>>, NoExc, NoExc)
    /\ UNCHANGED <<made, self_span, self_token, end_on_exit, ctx, fast>>

\* Mutant: set_attribute always writes the pending attribute map, a started
\* span never hearing of it (the test of self._span is missing).
SetAttributeAlwaysPending(k, v) ==
    /\ made
    /\ clock < MaxClock
    /\ otlp_attributes' = [otlp_attributes EXCEPT ![k] = v]
    /\ format_kwargs' = [format_kwargs EXCEPT ![k] = v]
    /\ CalledWith("set_attribute", <<k, v>>, NoExc, NoExc)
    /\ UNCHANGED <<made, self_span, self_token, end_on_exit, spans, ctx, fast>>

\* LogfireSpan.set_attribute(key, value)
SetAttribute(k, v) ==
    /\ made
    /\ clock < MaxClock
    /\ IF self_span = 0
       THEN /\ otlp_attributes' = [otlp_attributes EXCEPT ![k] = v]
            /\ UNCHANGED spans
       ELSE /\ spans' = [spans EXCEPT ![self_span] = Span_set_attribute(@, k, v)]
            /\ UNCHANGED otlp_attributes
    /\ format_kwargs' = [format_kwargs EXCEPT ![k] = v]
    /\ CalledWith("set_attribute", <<k, v>>, NoExc, NoExc)
    /\ UNCHANGED <<made, self_span, self_token, end_on_exit, ctx, fast>>

\* span.end_on_exit = b, by the user of the span
SetEndOnExit(b) ==
    /\ made
    /\ clock < MaxClock
    /\ end_on_exit # b
    /\ end_on_exit' = b
    /\ Called("end_on_exit", NoExc, NoExc)
    /\ UNCHANGED <<made, self_span, self_token, otlp_attributes, format_kwargs,
                   spans, ctx, fast>>

\* Logfire._fast_span(msg, attributes): the span is started and made current
\* by FastLogfireSpan.__init__; __enter__ returns self.
FastSpan ==
    /\ ~fast.made
    /\ clock < MaxClock
    /\ spans' = Append(spans, NewSpan("fast", [k \in AttrKeys |->
                                   IF k = MsgKey THEN "Calling m.f" ELSE Absent]))
    /\ ctx' = [ctx EXCEPT !.attached = @ + 1]
    /\ fast' = [made |-> TRUE, span |-> Len(spans) + 1, token |-> ctx.attached + 1,
                exited |-> FALSE]
    /\ Called("fast_span", NoExc, NoExc)
    /\ UNCHANGED <<made, self_span, self_token, end_on_exit, otlp_attributes,
                   format_kwargs>>

\* FastLogfireSpan.__exit__(exc_type, exc_value, traceback)
FastExit(exc, fail) ==
    /\ fast.made
    /\ ~fast.exited
    /\ clock < MaxClock
    /\ LET r == exit_span(spans[fast.span], exc, fail) IN
        /\ ctx' = [ctx EXCEPT !.detached = Append(@, fast.token)]
        /\ spans' = [spans EXCEPT ![fast.span] =
                        IF r.raised # NoExc THEN r.h ELSE Span_end(r.h, clock + 1)]
        /\ Called("fast_exit", exc, Propagated(exc, r.raised))
    /\ fast' = [fast EXCEPT !.exited = TRUE]
    /\ UNCHANGED <<made, self_span, self_token, end_on_exit, otlp_attributes,
                   format_kwargs>>

\* ------------------------------------------------------------ the emitter
\* Attribute values are uniformly typed records [t, q, n, s, l]:
\*   t  the Python type: "null", "bool", "int", "float", "str", "list", "obj";
\*   q, n  an int is q * 2^63 + n (n small), a bool is n in {0, 1}, a float is
\*         n hundredths; a str with s = "decimal" is the decimal string of the
\*         integer q * 2^63 + n;
\*   s  the text of a str, the name of any other object;
\*   l  the items of a list or tuple of strings.
V(t, q, n, s, l) == [t |-> t, q |-> q, n |-> n, s |-> s, l |-> l]
None == V("null", 0, 0, "", <<>>)
BoolV(b) == V("bool", 0, IF b THEN 1 ELSE 0, "", <<>>)
IntV(q, r) == V("int", q, r, "", <<>>)
FloatV(h) == V("float", 0, h, "", <<>>)
StrV(s) == V("str", 0, 0, s, <<>>)
ListV(l) == V("list", 0, 0, "", l)
ObjV(s) == V("obj", 0, 0, s, <<>>)

\* str(value) of an int, and logfire_json_dumps(value) of any other object.
str(value) == V("str", value.q, value.n, "decimal", <<>>)
logfire_json_dumps(value) == V("str", 0, 0, "json", <<value.s>> \o value.l)

\* isinstance(value, int): bool is a subclass of int.
IsInt(value) == value.t \in {"int", "bool"}
\* a > b on integers q * 2^63 + n with small n.
IntGreater(a, b) == a.q > b.q \/ (a.q = b.q /\ a.n > b.n)
\* 2^63 - 1
OTLP_MAX_INT_SIZE == IntV(1, -1)

\* value == 1 and the order of a number against the ints 0 and 1, as Python
\* compares numbers across int, bool and float.
Hundredths(value) == IF value.t = "float" THEN value.n ELSE 100 * value.n
IsNumber(value) == value.t \in {"int", "bool", "float"} /\ value.q = 0
Equals1(value) == IsNumber(value) /\ Hundredths(value) = 100
GreaterThan1(value) == Hundredths(value) > 100
LessThan0(value) == Hundredths(value) < 0

\* The reserved keys.
ATTRIBUTES_MESSAGE_TEMPLATE_KEY == "logfire.msg_template"
ATTRIBUTES_MESSAGE_KEY == MsgKey
ATTRIBUTES_TAGS_KEY == "logfire.tags"
ATTRIBUTES_SAMPLE_RATE_KEY == "logfire.sample_rate"
ATTRIBUTES_JSON_SCHEMA_KEY == "logfire.json_schema"
ATTRIBUTES_SPAN_TYPE_KEY == "logfire.span_type"
ATTRIBUTES_LOG_LEVEL_NAME_KEY == "logfire.level_name"
ATTRIBUTES_LOG_LEVEL_NUM_KEY == "logfire.level_num"
NULL_ARGS_KEY == "logfire.null_args"

\* A dict is the sequence of its items [k, v] in insertion order.
Item(k, v) == [k |-> k, v |-> v]
DictKeys(d) == {d[i].k : i \in 1..Len(d)}
Has(d, k) == k \in DictKeys(d)
Get(d, k) == d[CHOOSE i \in 1..Len(d) : d[i].k = k].v
\* d[k] = v
Put(d, k, v) ==
    IF Has(d, k) THEN [i \in 1..Len(d) |-> IF d[i].k = k THEN Item(k, v) ELSE d[i]]
    ELSE Append(d, Item(k, v))
\* {key: value for key, value in d.items() if key != k}, and d after d.pop(k, None)
Without(d, k) == SelectSeq(d, LAMBDA e : e.k # k)
\* {**a, **b}
RECURSIVE Update(_, _)
Update(a, b) == IF b = <<>> THEN a ELSE Update(Put(a, Head(b).k, Head(b).v), Tail(b))

\* uniquify_sequence: the items of seq in order, each kept at its first
\* occurrence only.
RECURSIVE uniquify_sequence(_)
uniquify_sequence(seq) ==
    IF seq = <<>> THEN <<>>
    ELSE LET front == SubSeq(seq, 1, Len(seq) - 1)
             x == seq[Len(seq)]
         IN IF \E i \in 1..Len(front) : front[i] = x
            THEN uniquify_sequence(front)
            ELSE Append(uniquify_sequence(front), x)

\* A variant of the merge that keeps duplicates.
merge_tags_keeping_duplicates(attributes, tags) ==
    LET res == IF Has(attributes, ATTRIBUTES_TAGS_KEY)
               THEN Get(attributes, ATTRIBUTES_TAGS_KEY).l \o tags ELSE tags
    IN [tags |-> IF res # <<>> THEN ListV(res) ELSE None,
        attributes |-> Without(attributes, ATTRIBUTES_TAGS_KEY)]

\* _merge_tags_into_attributes: the merged tags (None when there is none) and
\* the attributes without the tags key.
merge_tags_into_attributes(attributes, tags) ==
    LET has == Has(attributes, ATTRIBUTES_TAGS_KEY)
        res == IF has THEN Get(attributes, ATTRIBUTES_TAGS_KEY).l \o tags ELSE tags
        rest == IF has THEN Without(attributes, ATTRIBUTES_TAGS_KEY) ELSE attributes
    IN IF res # <<>>
       THEN [tags |-> ListV(uniquify_sequence(res)), attributes |-> rest]
       ELSE [tags |-> None, attributes |-> rest]

\* The loop of user_attributes over attributes.items().
RECURSIVE user_attributes_loop(_, _, _)
user_attributes_loop(items, prepared, null_args) ==
    IF items = <<>> THEN [prepared |-> prepared, null_args |-> null_args]
    ELSE LET key == Head(items).k
             value == Head(items).v
         IN IF value = None
            THEN user_attributes_loop(Tail(items), prepared, Append(null_args, key))
            ELSE IF IsInt(value)
            THEN IF IntGreater(value, OTLP_MAX_INT_SIZE)
                 THEN user_attributes_loop(Tail(items), Put(prepared, key, str(value)), null_args)
                 ELSE user_attributes_loop(Tail(items), Put(prepared, key, value), null_args)
            ELSE IF value.t \in {"str", "bool", "float"}
            THEN user_attributes_loop(Tail(items), Put(prepared, key, value), null_args)
            ELSE user_attributes_loop(Tail(items),
                                      Put(prepared, key, logfire_json_dumps(value)), null_args)

\* A variant of the encoder that passes every item through.
user_attributes_identity(attributes) == attributes

\* user_attributes: the encoded attributes.
user_attributes(attributes) ==
    LET r == user_attributes_loop(attributes, <<>>, <<>>)
    IN IF r.null_args # <<>>
       THEN Put(r.prepared, NULL_ARGS_KEY, ListV(r.null_args))
       ELSE r.prepared

\* The warnings user_attributes raises (warnings.warn, UserWarning): one for
\* each key whose integer is larger than OTLP_MAX_INT_SIZE.
user_attributes_warnings(attributes) ==
    {<<"Integer value is larger than the maximum OTLP integer size", attributes[i].k>> :
        i \in {j \in 1..Len(attributes) :
                  IsInt(attributes[j].v) /\ IntGreater(attributes[j].v, OTLP_MAX_INT_SIZE)}}

\* logfire_json_schema(attributes): a schema when some value is not primitive.
logfire_json_schema(attributes) ==
    IF \E i \in 1..Len(attributes) : attributes[i].v.t \in {"obj", "list"}
    THEN StrV("schema") ELSE None

\* The sample rate of _span and log: the rate of the instance when it has one,
\* else the inline one, popped; written back unless it is None or equal to 1.
resolve_sample_rate(self_sample_rate, attributes) ==
    LET inline == Has(attributes, ATTRIBUTES_SAMPLE_RATE_KEY)
        sample_rate == IF self_sample_rate # None THEN self_sample_rate
                       ELSE IF inline THEN Get(attributes, ATTRIBUTES_SAMPLE_RATE_KEY)
                       ELSE None
        rest == IF self_sample_rate # None THEN attributes
                ELSE Without(attributes, ATTRIBUTES_SAMPLE_RATE_KEY)
    IN IF sample_rate # None /\ ~Equals1(sample_rate)
       THEN Put(rest, ATTRIBUTES_SAMPLE_RATE_KEY, sample_rate)
       ELSE rest

\* ---- the inputs of the emitter
MaxTags == 2        \* tags bound to one Logfire instance

\* The arguments of with_tags.
TagArgs == {<<>>, <<"t1">>, <<"t2", "t1">>}
\* The sample rates callers pass: -0.5, 0, 0.5, 1, 1.5; the sample_rate
\* arguments of the constructor in the model: the default, and 1.5.
SampleRates == {FloatV(-50), FloatV(0), FloatV(50), FloatV(100), FloatV(150)}
InitSampleRates == {None, FloatV(150)}

\* k.startswith('_') over the keys of the model.
UnderscoreKeys == {"_p"}
StartsWithUnderscore(k) == k \in UnderscoreKeys

\* The items a caller may pass, in a fixed order: None, a small int, an object,
\* a reserved-prefix key, inline sample rates and tags, the null-args key, and
\* under key "n" the integers 2^63 - 1, 2^63, -(2^63 - 1), -2^63 - 1.
Items == <<Item("x", None), Item("x", IntV(0, 1)), Item("x", ObjV("o")),
           Item("y", None), Item("_p", IntV(0, 1)),
           Item(ATTRIBUTES_SAMPLE_RATE_KEY, FloatV(50)),
           Item(ATTRIBUTES_SAMPLE_RATE_KEY, FloatV(100)),
           Item(ATTRIBUTES_TAGS_KEY, ListV(<<>>)),
           Item(ATTRIBUTES_TAGS_KEY, ListV(<<"t2", "t3", "t2">>)),
           Item(NULL_ARGS_KEY, StrV("s")),
           Item("n", IntV(1, -1)), Item("n", IntV(1, 0)),
           Item("n", IntV(-1, 1)), Item("n", IntV(-1, -1))>>
\* The attribute dicts of the model: no item, one item, or None or a small
\* int under key "x" followed by an item of another key (other than "n").
AttributeInputs ==
    {<<>>} \cup {<<Items[i]>> : i \in DOMAIN Items}
           \cup {<<Items[p[1]], Items[p[2]]>> :
                   p \in {q \in (DOMAIN Items) \X (DOMAIN Items) :
                            /\ Items[q[1]].k = "x" /\ Items[q[1]].v.t # "obj"
                            /\ Items[q[2]].k \notin {"x", "n"}}}
\* The attribute dicts passed to instrumented functions and to log with a
\* level that is none: no item, or one item other than an object, empty tags
\* or a large integer.
SmallInputs == {d \in AttributeInputs :
                  Len(d) = 0 \/ (Len(d) = 1 /\ d[1].v.t # "obj" /\ d[1].v # ListV(<<>>)
                                             /\ d[1].k # "n")}

\* The attribute dicts passed to the level methods: no item, a None value, a
\* reserved-prefix key.
LevelInputs == {<<>>, <<Item("x", None)>>, <<Item("_p", IntV(0, 1))>>}
\* The attribute dicts log is called with, by level.
LogInputs(level) == IF level = "info" THEN AttributeInputs ELSE SmallInputs

\* The level methods, and the levels log is called with ("bogus" is none).
LevelNames == {"trace", "debug", "info", "notice", "warn", "error", "fatal"}
LogLevels == {"info", "bogus"}
\* LEVEL_NUMBERS[level], kept by name.
LevelNo(level) == V("int", 0, 0, level, <<>>)

\* get_caller_stack_info(...), the message template of every call, and
\* logfire_format of a template without fields.
StackInfo == <<Item("code.lineno", IntV(0, 1))>>
MsgTemplate == "hello"
logfire_format(msg_template, kwargs) == StrV(msg_template)

\* ---- the attribute pipelines
\* Logfire._span: the attributes the LogfireSpan is created with.
span_attributes(self, attributes) ==
    LET merged0 == Put(Update(StackInfo, attributes),
                       ATTRIBUTES_MESSAGE_TEMPLATE_KEY, StrV(MsgTemplate))
        m == merge_tags_into_attributes(merged0, self.tags)
        log_message == logfire_format(MsgTemplate, m.attributes)
        merged == Put(m.attributes, ATTRIBUTES_MESSAGE_KEY, log_message)
        otlp0 == user_attributes(merged)
        schema == logfire_json_schema(attributes)
        otlp1 == IF schema # None THEN Put(otlp0, ATTRIBUTES_JSON_SCHEMA_KEY, schema)
                 ELSE otlp0
        otlp2 == IF m.tags # None THEN Put(otlp1, ATTRIBUTES_TAGS_KEY, m.tags) ELSE otlp1
    IN resolve_sample_rate(self.sample_rate, otlp2)

\* Logfire._span: the warnings raised while the attributes are built.
span_warnings(self, attributes) ==
    LET merged0 == Put(Update(StackInfo, attributes),
                       ATTRIBUTES_MESSAGE_TEMPLATE_KEY, StrV(MsgTemplate))
        m == merge_tags_into_attributes(merged0, self.tags)
        merged == Put(m.attributes, ATTRIBUTES_MESSAGE_KEY,
                      logfire_format(MsgTemplate, m.attributes))
    IN user_attributes_warnings(merged)

\* Logfire.log: the warnings raised while the attributes are built.
log_warnings(self, level, attributes) ==
    LET m == merge_tags_into_attributes(Update(StackInfo, attributes), self.tags)
    IN (IF level \in LevelNames THEN {} ELSE {<<"Invalid log level", level>>})
          \cup user_attributes_warnings(m.attributes)

\* Logfire.log: the attributes the log span is started with.
log_attributes(self, level, attributes) ==
    LET level_ == IF level \in LevelNames THEN level ELSE "error"
        merged0 == Update(StackInfo, attributes)
        m == merge_tags_into_attributes(merged0, self.tags)
        msg == logfire_format(MsgTemplate, m.attributes)
        otlp0 == Update(<<Item(ATTRIBUTES_SPAN_TYPE_KEY, StrV("log")),
                          Item(ATTRIBUTES_LOG_LEVEL_NAME_KEY, StrV(level_)),
                          Item(ATTRIBUTES_LOG_LEVEL_NUM_KEY, LevelNo(level_)),
                          Item(ATTRIBUTES_MESSAGE_TEMPLATE_KEY, StrV(MsgTemplate)),
                          Item(ATTRIBUTES_MESSAGE_KEY, msg)>>,
                        user_attributes(m.attributes))
        schema == logfire_json_schema(attributes)
        otlp1 == IF schema # None THEN Put(otlp0, ATTRIBUTES_JSON_SCHEMA_KEY, schema)
                 ELSE otlp0
        otlp2 == IF m.tags # None THEN Put(otlp1, ATTRIBUTES_TAGS_KEY, m.tags) ELSE otlp1
    IN resolve_sample_rate(self.sample_rate, otlp2)

\* Logfire._fast_span_attributes: the attributes of an auto-traced call.
fast_span_attributes(self) ==
    LET attributes == Update(StackInfo,
            <<Item(ATTRIBUTES_MESSAGE_TEMPLATE_KEY, StrV("Calling m.f")),
              Item(ATTRIBUTES_MESSAGE_KEY, StrV("Calling m.f")),
              Item(ATTRIBUTES_TAGS_KEY,
                   ListV(uniquify_sequence(self.tags \o <<"auto-trace">>)))>>)
    IN IF self.sample_rate # None /\ ~Equals1(self.sample_rate)
       THEN Put(attributes, ATTRIBUTES_SAMPLE_RATE_KEY, self.sample_rate)
       ELSE attributes

\* any(k.startswith('_') for k in attributes)
AnyReservedKey(attributes) == \E k \in DictKeys(attributes) : StartsWithUnderscore(k)

\* A range check that accepts every rate.
SampleRateAlwaysAccepted(sample_rate) == FALSE

\* sample_rate > 1 or sample_rate < 0
SampleRateOutOfRange(sample_rate) == GreaterThan1(sample_rate) \/ LessThan0(sample_rate)

\* ---- the calls
\* What a call leaves in em: its name, level and input, the exception it
\* raised, whether attributes were handed on for a span, those attributes, the
\* warnings raised, and the span the log path started and what it did with it
\* (<<>>: none).
Emission(op, level, input, raised, emitted, attributes) ==
    [op |-> op, level |-> level, input |-> input, raised |-> raised,
     emitted |-> emitted, attributes |-> attributes, warnings |-> {}, span |-> <<>>]

\* DEFAULT_LOGFIRE_INSTANCE = Logfire(); nothing called yet.
InitEmit ==
    /\ lf = [tags |-> <<>>, sample_rate |-> None]
    /\ em = Emission("none", "", <<>>, NoExc, FALSE, <<>>)

\* Logfire(tags, config, sample_rate)
Logfire(tags, sample_rate) ==
    /\ Len(tags) <= MaxTags
    /\ lf' = [tags |-> tags, sample_rate |-> sample_rate]
    /\ em' = Emission("Logfire", "", <<Item("tags", ListV(tags)),
                                      Item("sample_rate", sample_rate)>>,
                      NoExc, FALSE, <<>>)

\* Logfire.with_tags(*tags): the instance in use becomes the one returned.
WithTags(tags) ==
    /\ Len(lf.tags) + Len(tags) <= MaxTags
    /\ lf' = [tags |-> lf.tags \o tags, sample_rate |-> lf.sample_rate]
    /\ em' = Emission("with_tags", "", <<Item("tags", ListV(tags))>>, NoExc, FALSE, <<>>)

\* Logfire.with_trace_sample_rate(sample_rate)
WithTraceSampleRate(sample_rate) ==
    /\ IF SampleRateOutOfRange(sample_rate)
       THEN /\ lf' = lf
            /\ em' = Emission("with_trace_sample_rate", "",
                              <<Item("sample_rate", sample_rate)>>, "ValueError", FALSE, <<>>)
       ELSE /\ lf' = [tags |-> lf.tags, sample_rate |-> sample_rate]
            /\ em' = Emission("with_trace_sample_rate", "",
                              <<Item("sample_rate", sample_rate)>>, NoExc, FALSE, <<>>)

\* Logfire.span(msg_template, **attributes)
SpanCall(attributes) ==
    /\ lf' = lf
    /\ IF AnyReservedKey(attributes)
       THEN em' = Emission("span", "", attributes, "ValueError", FALSE, <<>>)
       ELSE em' = [Emission("span", "", attributes, NoExc, TRUE,
                            span_attributes(lf, attributes))
                      EXCEPT !.warnings = span_warnings(lf, attributes)]

\* A call of a function wrapped by Logfire.instrument whose arguments are
\* extracted as attributes: _instrument_wrapper enters self._span(...).
InstrumentCall(attributes) ==
    /\ lf' = lf
    /\ em' = [Emission("instrument", "", attributes, NoExc, TRUE,
                       span_attributes(lf, attributes))
                 EXCEPT !.warnings = span_warnings(lf, attributes)]

\* The values self._config.ns_timestamp_generator() returns.
Timestamps == {1, 2}

\* tracer.start_span(name, attributes=..., start_time=...)
start_span_at(owner, attributes, start_time) ==
    [start_time |-> start_time] @@ NewSpan(owner, attributes)

\* A variant of the log path that never ends the span it started.
log_span_left_open(attributes, start_time) ==
    Span_set_status(start_span_at("log", attributes, start_time), "OK", "")

\* Logfire.log, from start_span on: the span is started at start_time, its
\* status is set to OK and it is ended at start_time.
log_span(attributes, start_time) ==
    LET span == start_span_at("log", attributes, start_time)
    IN Span_end(Span_set_status(span, "OK", ""), start_time)

\* Logfire.log(level, msg_template, attributes)
LogCall(level, attributes) ==
    /\ lf' = lf
    /\ LET otlp == log_attributes(lf, level, attributes)
           warned == log_warnings(lf, level, attributes)
       IN \E start_time \in Timestamps :
             em' = [Emission("log", level, attributes, NoExc, TRUE, otlp)
                       EXCEPT !.warnings = warned,
                              !.span = <<log_span(otlp, start_time)>>]

\* Logfire.trace, debug, info, notice, warn, error, fatal
LevelCall(level, attributes) ==
    /\ lf' = lf
    /\ IF AnyReservedKey(attributes)
       THEN em' = Emission(level, level, attributes, "ValueError", FALSE, <<>>)
       ELSE LET otlp == log_attributes(lf, level, attributes)
                warned == log_warnings(lf, level, attributes)
            IN \E start_time \in Timestamps :
                  em' = [Emission(level, level, attributes, NoExc, TRUE, otlp)
                            EXCEPT !.warnings = warned,
                                   !.span = <<log_span(otlp, start_time)>>]

\* An auto-traced call: _fast_span_attributes, then _fast_span starts the span.
AutoTraceCall ==
    /\ lf' = lf
    /\ em' = Emission("auto_trace", "", <<>>, NoExc, TRUE, fast_span_attributes(lf))

NextEmit ==
    \/ \E t \in TagArgs, r \in InitSampleRates :
          Logfire(t, r) /\ UNCHANGED <<exportVars, spanVars, paramVars>>
    \/ \E t \in TagArgs : WithTags(t) /\ UNCHANGED <<exportVars, spanVars, paramVars>>
    \/ \E r \in SampleRates : WithTraceSampleRate(r) /\ UNCHANGED <<exportVars, spanVars, paramVars>>
    \/ \E a \in AttributeInputs : SpanCall(a) /\ UNCHANGED <<exportVars, spanVars, paramVars>>
    \/ \E a \in SmallInputs : InstrumentCall(a) /\ UNCHANGED <<exportVars, spanVars, paramVars>>
    \/ \E l \in LogLevels : \E a \in LogInputs(l) :
          LogCall(l, a) /\ UNCHANGED <<exportVars, spanVars, paramVars>>
    \/ \E l \in LevelNames, a \in LevelInputs :
          LevelCall(l, a) /\ UNCHANGED <<exportVars, spanVars, paramVars>>
    \/ AutoTraceCall /\ UNCHANGED <<exportVars, spanVars, paramVars>>

\* ------------------------------------------------------ the parameter manager
\* Three of the parameters of CONFIG_PARAMS: two environment variables and
\* file configuration; one variable and no file configuration; a bool.
CONFIG_PARAMS ==
    [base_url |-> [env_vars |-> <<"LOGFIRE_BASE_URL", "OTEL_EXPORTER_OTLP_ENDPOINT">>,
                   allow_file_config |-> TRUE,
                   default |-> StrV("LOGFIRE_BASE_URL"), tp |-> "str"],
     token |-> [env_vars |-> <<"LOGFIRE_TOKEN">>,
                allow_file_config |-> FALSE,
                default |-> None, tp |-> "str"],
     send_to_logfire |-> [env_vars |-> <<"LOGFIRE_SEND_TO_LOGFIRE">>,
                          allow_file_config |-> TRUE,
                          default |-> BoolV(TRUE), tp |-> "bool"]]

\* The names load_param is called with ("colour" is no parameter) and the
\* runtime arguments.
ParamNames == {"base_url", "token", "send_to_logfire", "colour"}
RuntimeValues == {None, StrV("runtime")}

\* The values the environment gives each variable (None: not set).
EnvValues ==
    [LOGFIRE_BASE_URL |-> {None, StrV(""), StrV("env-url")},
     OTEL_EXPORTER_OTLP_ENDPOINT |-> {None, StrV("otel-url")},
     LOGFIRE_TOKEN |-> {None, StrV("env-token")},
     LOGFIRE_SEND_TO_LOGFIRE |-> {None, StrV("TRUE"), StrV("0"), StrV("yes")}]
EnvVars == DOMAIN EnvValues

\* The config files of the model.
ConfigFiles ==
    {<<>>,
     <<Item("base_url", StrV("file-url"))>>,
     <<Item("token", StrV("file-token"))>>,
     <<Item("send_to_logfire", BoolV(FALSE))>>,
     <<Item("base_url", StrV("file-url")), Item("token", StrV("file-token")),
       Item("send_to_logfire", StrV("f"))>>}

\* value.lower() over the strings of the model.
Lower(s) == IF s = "TRUE" THEN "true" ELSE s

\* What a step of load_param yields: a value or an exception, the source the
\* value was taken from, and the sources read on the way, in order.
Loaded(value, raised, source, consulted) ==
    [value |-> value, raised |-> raised, source |-> source, consulted |-> consulted]

\* _check_bool(value, name)
check_bool(value) ==
    IF value = None THEN [value |-> None, raised |-> NoExc]
    ELSE IF value.t = "bool" THEN [value |-> value, raised |-> NoExc]
    ELSE IF value.t = "str" /\ Lower(value.s) \in {"1", "true", "t"}
    THEN [value |-> BoolV(TRUE), raised |-> NoExc]
    ELSE IF value.t = "str" /\ Lower(value.s) \in {"0", "false", "f"}
    THEN [value |-> BoolV(FALSE), raised |-> NoExc]
    ELSE [value |-> None, raised |-> "LogfireConfigError"]

\* ParamManager._cast(value, name, tp), for the types of the model.
cast(value, tp) ==
    IF tp = "str" THEN [value |-> value, raised |-> NoExc]
    ELSE IF tp = "bool" THEN check_bool(value)
    ELSE [value |-> None, raised |-> "RuntimeError"]

\* dict.get(name)
DictGet(d, name) == IF Has(d, name) THEN Get(d, name) ELSE None

\* The loop of load_param over param.env_vars: the first variable that is
\* set, and the variables read.
RECURSIVE getenv_loop(_, _, _)
getenv_loop(env, env_vars, consulted) ==
    IF env_vars = <<>> THEN [found |-> FALSE, var |-> "", value |-> None,
                             consulted |-> consulted]
    ELSE LET env_var == Head(env_vars)
             value == env[env_var]
         IN IF value # None
            THEN [found |-> TRUE, var |-> env_var, value |-> value,
                  consulted |-> Append(consulted, env_var)]
            ELSE getenv_loop(env, Tail(env_vars), Append(consulted, env_var))

\* load_param after the environment gave nothing: the config file, if the
\* parameter allows it, then the default.
load_from_file_or_default(config, param, name, consulted) ==
    IF param.allow_file_config
    THEN LET value == DictGet(config, name)
             read == Append(consulted, "config_from_file")
         IN IF value # None
            THEN LET c == cast(value, param.tp)
                 IN Loaded(c.value, c.raised, "config_from_file", read)
            ELSE LET c == cast(param.default, param.tp)
                 IN Loaded(c.value, c.raised, "default", read)
    ELSE LET c == cast(param.default, param.tp)
         IN Loaded(c.value, c.raised, "default", consulted)

\* A variant of load_param that reads the config file before the environment.
load_param_file_first(config, env, name, runtime) ==
    IF runtime # None THEN Loaded(runtime, NoExc, "runtime", <<>>)
    ELSE IF name \notin DOMAIN CONFIG_PARAMS THEN Loaded(None, "KeyError", "none", <<>>)
    ELSE LET param == CONFIG_PARAMS[name]
             value == DictGet(config, name)
             e == getenv_loop(env, param.env_vars, <<"config_from_file">>)
         IN IF value # None
            THEN LET c == cast(value, param.tp)
                 IN Loaded(c.value, c.raised, "config_from_file", <<"config_from_file">>)
            ELSE IF e.found
            THEN LET c == cast(e.value, param.tp)
                 IN Loaded(c.value, c.raised, e.var, e.consulted)
            ELSE LET c == cast(param.default, param.tp)
                 IN Loaded(c.value, c.raised, "default", e.consulted)

\* ParamManager.load_param(name, runtime), with os.environ as env.
load_param(config, env, name, runtime) ==
    IF runtime # None THEN Loaded(runtime, NoExc, "runtime", <<>>)
    ELSE IF name \notin DOMAIN CONFIG_PARAMS THEN Loaded(None, "KeyError", "none", <<>>)
    ELSE LET param == CONFIG_PARAMS[name]
             e == getenv_loop(env, param.env_vars, <<>>)
         IN IF e.found
            THEN LET c == cast(e.value, param.tp)
                 IN Loaded(c.value, c.raised, e.var, e.consulted)
            ELSE load_from_file_or_default(config, param, name, e.consulted)

\* Nothing is set, the config file is empty, nothing was loaded.
InitParam ==
    /\ environ = [v \in EnvVars |-> None]
    /\ config_from_file = <<>>
    /\ lp = [name |-> "", runtime |-> None] @@ Loaded(None, NoExc, "none", <<>>)

\* The environment sets or unsets a variable.
SetEnv(var, value) ==
    /\ environ' = [environ EXCEPT ![var] = value]
    /\ UNCHANGED <<config_from_file, lp>>

\* ParamManager(config_from_file=config)
NewParamManager(config) ==
    /\ config_from_file' = config
    /\ UNCHANGED <<environ, lp>>

\* ParamManager.load_param(name, runtime)
LoadParam(name, runtime) ==
    /\ lp' = [name |-> name, runtime |-> runtime]
                @@ load_param(config_from_file, environ, name, runtime)
    /\ UNCHANGED <<environ, config_from_file>>

NextParam ==
    \/ \E var \in EnvVars : \E value \in EnvValues[var] :
          SetEnv(var, value) /\ UNCHANGED <<exportVars, spanVars, emitVars>>
    \/ \E config \in ConfigFiles :
          NewParamManager(config) /\ UNCHANGED <<exportVars, spanVars, emitVars>>
    \/ \E name \in ParamNames, runtime \in RuntimeValues :
          LoadParam(name, runtime) /\ UNCHANGED <<exportVars, spanVars, emitVars>>

NextSpan ==
    \/ \E v \in Vals : Construct(v) /\ UNCHANGED <<exportVars, emitVars, paramVars>>
    \/ Enter /\ UNCHANGED <<exportVars, emitVars, paramVars>>
    \/ \E exc \in ScopeExits, fail \in FailPoints : Exit(exc, fail) /\ UNCHANGED <<exportVars, emitVars, paramVars>>
    \/ End /\ UNCHANGED <<exportVars, emitVars, paramVars>>
    \/ \E k \in Keys, v \in Vals : SetAttribute(k, v) /\ UNCHANGED <<exportVars, emitVars, paramVars>>
    \/ \E b \in BOOLEAN : SetEndOnExit(b) /\ UNCHANGED <<exportVars, emitVars, paramVars>>
    \/ FastSpan /\ UNCHANGED <<exportVars, emitVars, paramVars>>
    \/ \E exc \in ScopeExits, fail \in FailPoints : FastExit(exc, fail) /\ UNCHANGED <<exportVars, emitVars, paramVars>>

NextExport ==
    \/ \E c \in Calls, b \in Batches : ExportCall(c, b) /\ UNCHANGED <<spanVars, emitVars, paramVars>>
    \/ \E c \in Calls, o \in PrimaryOutcomes, e \in PrimaryExceptions :
          PrimaryExport(c, o, e) /\ UNCHANGED <<spanVars, emitVars, paramVars>>
    \/ \E c \in Calls : FallbackExport(c) /\ UNCHANGED <<spanVars, emitVars, paramVars>>
    \/ \E c \in Calls : ExportReturn(c) /\ UNCHANGED <<spanVars, emitVars, paramVars>>
    \/ \E c \in Calls : ExportNext(c) /\ UNCHANGED <<spanVars, emitVars, paramVars>>
    \/ \E r \in BOOLEAN : Shutdown(r) /\ UNCHANGED <<spanVars, emitVars, paramVars>>

Init == InitExport /\ InitSpan /\ InitEmit /\ InitParam

SpecExport == Init /\ [][NextExport]_vars

SpecSpan == Init /\ [][NextSpan]_vars

SpecEmit == Init /\ [][NextEmit]_vars

SpecParam == Init /\ [][NextParam]_vars

\* ------------------------------------------------ claims on the exporter

\* The entries a sink's log holds for export call number n.
EntriesOf(log, n) == {i \in 1..Len(log) : log[i].id = n}

\* The sink's log holds exactly one entry for call n, and it is batch b.
ReceivedOnce(log, n, b) ==
    /\ Cardinality(EntriesOf(log, n)) = 1
    /\ \A i \in EntriesOf(log, n) : log[i].batch = b

\* C1: when the primary's export raised, then by the time the exception has
\* reached the caller the fallback sink has received exactly the batch of that
\* call (same spans, same order), and the exception the caller sees is the one
\* the primary raised.
C1_RaiseFallsBackThenReraises ==
    \A c \in Calls :
        (ex_pc[c] = "done" /\ ex_result[c] = "raise") =>
            /\ ReceivedOnce(fallback_log, ex_id[c], ex_batch[c])
            /\ ex_raised[c] = ex_exc[c]
            /\ ex_raised[c] \in PrimaryExceptions
            /\ ex_ret[c] = "none"

C1_Witness ==
    \E c \in Calls :
        /\ ex_pc[c] = "done" /\ ex_result[c] = "raise"
        /\ ex_batch[c] = <<"s1", "s2">>
        /\ ex_raised[c] = "BadExporter"

\* C2: when the primary's export returned FAILURE without raising, the fallback
\* sink has received the batch of that call unchanged, no exception reaches the
\* caller, and export returns SUCCESS.
C2_FailureFallsBackAndSucceeds ==
    \A c \in Calls :
        (ex_pc[c] = "done" /\ ex_result[c] = "FAILURE") =>
            /\ ReceivedOnce(fallback_log, ex_id[c], ex_batch[c])
            /\ ex_raised[c] = "none"
            /\ ex_ret[c] = "SUCCESS"

C2_Witness ==
    \E c \in Calls :
        /\ ex_pc[c] = "done" /\ ex_result[c] = "FAILURE"
        /\ ex_batch[c] = <<"s1", "s2">>

\* C3: every export call that has completed, whatever its primary did, has its
\* batch in the primary sink (accepted) or in the fallback sink (received):
\* no completed call leaves its batch in neither.
C3_NoBatchLost ==
    \A r \in completed :
        \/ \E i \in 1..Len(primary_log) :
              primary_log[i] = [id |-> r.id, batch |-> r.batch]
        \/ \E i \in 1..Len(fallback_log) :
              fallback_log[i] = [id |-> r.id, batch |-> r.batch]

C3_Witness ==
    /\ Cardinality(completed) = MaxExports
    /\ \E r \in completed : r.result = "FAILURE"
    /\ \E r \in completed : r.result # "FAILURE"

\* C4: shutdown invokes the shutdown of the primary and of the fallback sink,
\* the fallback's also when the primary's shutdown raised.
C4_ShutdownReachesBothSinks ==
    sd.called => (sd.primary = 1 /\ sd.fallback = 1)

C4_Witness ==
    sd.called /\ sd.raised = "ShutdownError" /\ sd.fallback = 1

\* -------------------------------------------------- claims on LogfireSpan

\* The handles the tracer started for the LogfireSpan, and those of them that
\* have been closed.
SpanHandles == {i \in 1..Len(spans) : spans[i].owner = "span"}
ClosedHandles == {i \in SpanHandles : ~spans[i].recording}

\* The step is a call of operation op.
IsCall(op) == clock' = clock + 1 /\ last'.op = op

\* The fields of the LogfireSpan and the context are left as they were.
RecordUnchanged ==
    UNCHANGED <<made, self_span, self_token, end_on_exit, otlp_attributes,
                format_kwargs, ctx>>

\* C5: the tracer's start_span is invoked at most once for the record, and
\* only by a scope entry: constructing the record starts nothing, and entering
\* a record that already has an underlying span opens no second one.
C5_StartedAtMostOnceByEntry ==
    /\ [](Cardinality(SpanHandles) <= 1)
    /\ [](last.op = "span" => SpanHandles = {})
    /\ [][Cardinality(SpanHandles') > Cardinality(SpanHandles) => IsCall("enter")]_vars
    /\ [][(IsCall("enter") /\ self_span # 0) =>
            (self_span' = self_span /\ Len(spans') = Len(spans))]_vars

C5_Witness ==
    /\ last.op = "enter"
    /\ Cardinality(SpanHandles) = 1
    /\ ~spans[self_span].recording
    /\ Len(ctx.detached) >= 1

C7_EndIdempotent ==
    /\ [][(IsCall("end") /\ self_span # 0 /\ ~spans[self_span].recording) =>
            (spans' = spans /\ RecordUnchanged /\ last'.raised = NoExc)]_vars
    /\ [][(IsCall("end") /\ self_span # 0 /\ spans[self_span].recording) =>
            /\ ~spans'[self_span].recording
            /\ spans'[self_span].end_calls = spans[self_span].end_calls + 1
            /\ RecordUnchanged /\ last'.raised = NoExc]_vars

C7_Witness ==
    /\ last.op = "end"
    /\ last.raised = NoExc
    /\ self_span \in ClosedHandles
    /\ spans[self_span].end_calls = 1
    /\ spans[self_span].end_time < clock

\* C8: end() on a record that was never started raises RuntimeError and
\* leaves the record as it was: still unstarted, no span created, the pending
\* attributes, the bindings and the context token untouched.
C8_EndBeforeStartRaises ==
    [][(IsCall("end") /\ self_span = 0) =>
        /\ last'.raised = "RuntimeError"
        /\ self_span' = 0
        /\ spans' = spans
        /\ RecordUnchanged]_vars

C8_Witness ==
    /\ last.op = "end"
    /\ last.raised = "RuntimeError"
    /\ self_span = 0
    /\ SpanHandles = {}
    /\ otlp_attributes["b"] # Absent

\* C9: once the underlying span has stopped recording, no operation on the
\* record performs an attribute mutation, a status change, an exception
\* capture or a message re-render on it: the record makes no set_attribute,
\* set_status or record_exception call on a span that is not recording.
C9_NothingPerformedAfterStop ==
    \A i \in SpanHandles : \A c \in spans[i].late : c[1] = "end"

\* C10: a user exception a scope exits with (LogfireSpan or FastLogfireSpan)
\* is never swallowed or replaced: the caller sees that same exception,
\* whatever its kind and whatever the state of the record at exit.
C10_UserExceptionPropagates ==
    (last.op \in {"exit", "fast_exit"} /\ last.exc # NoExc) => last.raised = last.exc

\* C11: the final message reflects the attribute mutations made before the
\* exit: the bindings of the template are the construction-time attributes
\* updated by every set_attribute call (the latest value of a key wins,
\* nothing else changes them), and the scope exit that closes a recording span
\* overwrites its message attribute with the template rendered over them.
C11_FinalMessageFromLatestBindings ==
    /\ [][IsCall("span") =>
            format_kwargs' = [k \in Keys |-> IF k = last'.arg[1] THEN last'.arg[2]
                                             ELSE Absent]]_vars
    /\ [][IsCall("set_attribute") =>
            format_kwargs' = [format_kwargs EXCEPT ![last'.arg[1]] = last'.arg[2]]]_vars
    /\ [][(~IsCall("span") /\ ~IsCall("set_attribute")) => UNCHANGED format_kwargs]_vars
    /\ [][(IsCall("exit") /\ self_span # 0 /\ spans[self_span].recording
                           /\ ~spans'[self_span].recording) =>
            spans'[self_span].attributes[MsgKey] = Render(format_kwargs)]_vars

C11_Witness ==
    /\ last.op = "exit"
    /\ self_span \in ClosedHandles
    /\ spans[self_span].end_time = clock
    /\ otlp_attributes["a"] = "1"
    /\ otlp_attributes[MsgKey] = "a=1"
    /\ spans[self_span].attributes[MsgKey] = "a=2"

\* The step is a scope exit of the LogfireSpan that holds a token, on a span
\* that is recording.
IsLiveExit ==
    /\ IsCall("exit")
    /\ self_token # 0
    /\ self_span # 0
    /\ spans[self_span].recording

\* C12: when the scope of a recording span exits with an Exception, the span
\* status becomes ERROR with description "<ExceptionKindName>: <message>" and
\* the exception is recorded as one more span event, marked as escaped.
C12_ExceptionSetsErrorAndEvent ==
    [][(IsLiveExit /\ last'.exc \in Exceptions) =>
        LET h == spans[self_span]
            g == spans'[self_span] IN
        /\ g.status = "ERROR"
        /\ g.description = "ValueError: boom"
        /\ Len(g.events) = Len(h.events) + 1
        /\ g.events[Len(g.events)].exception = last'.exc
        /\ g.events[Len(g.events)].escaped]_vars

\* C13: a scope exit with a cancellation-class exception (a BaseException that
\* is no Exception) captures nothing: on every span, of a LogfireSpan or a
\* FastLogfireSpan, no event is added and the status is not set to ERROR (it
\* is left as it was or set to OK), and the exception reaches the caller.
C13_CancellationNotCaptured ==
    [][((IsCall("exit") \/ IsCall("fast_exit")) /\ last'.exc \in BaseExceptions) =>
        /\ Len(spans') = Len(spans)
        /\ \A i \in 1..Len(spans) :
              /\ spans'[i].events = spans[i].events
              /\ spans'[i].status \in {spans[i].status, "OK"}
              /\ spans'[i].description \in {spans[i].description, ""}
        /\ last'.raised = last'.exc]_vars

C13_Witness ==
    /\ last.op = "exit"
    /\ last.exc = "KeyboardInterrupt"
    /\ last.raised = "KeyboardInterrupt"
    /\ self_span \in ClosedHandles
    /\ spans[self_span].end_time = clock
    /\ spans[self_span].status = "OK"
    /\ spans[self_span].events = <<>>

\* C14: the capture of an exception at scope exit never raises: whatever
\* fails while the structured trace is built, the exception is still recorded
\* as an event on the span, the message is re-rendered, the span is closed
\* when end_on_exit is true, and the caller sees the user exception.
C14_CaptureNeverRaises ==
    [][(IsLiveExit /\ last'.exc \in Exceptions) =>
        LET h == spans[self_span]
            g == spans'[self_span] IN
        /\ last'.raised = last'.exc
        /\ Len(g.events) = Len(h.events) + 1
        /\ g.attributes[MsgKey] = Render(format_kwargs)
        /\ (end_on_exit => ~g.recording)]_vars

\* ------------------------------------------------------------ the emitter's claims
\* The sample rate among attributes (None: no such key), and the calls that
\* hand attributes to a tracer along the span path and the log path.
RateOf(attributes) ==
    IF Has(attributes, ATTRIBUTES_SAMPLE_RATE_KEY)
    THEN Get(attributes, ATTRIBUTES_SAMPLE_RATE_KEY) ELSE None
SpanPath == {"span", "instrument"}
LogPath == {"log"} \cup LevelNames
Emitted(ops) == em.op \in ops /\ em.emitted

\* C15: whatever the sample rate of the instance (unset, 1, another value) and
\* the inline sample-rate attribute (absent, 1, another value), the attributes
\* handed to the tracer by the span path, the log path and the auto-trace path
\* never hold the sample-rate key with a value equal to 1; a resolved rate of
\* 0.5 (the rate of the instance, or the inline one when the instance has
\* none) is emitted.
C15_UnitSampleRateNeverEmitted ==
    Emitted(SpanPath \cup LogPath \cup {"auto_trace"}) =>
        /\ ~Equals1(RateOf(em.attributes))
        /\ (lf.sample_rate = FloatV(50)
              \/ (lf.sample_rate = None /\ RateOf(em.input) = FloatV(50)))
           => RateOf(em.attributes) = FloatV(50)

\* C16: the sample rate emitted with a span or a log is the rate of the
\* instance when it has one (nothing when that rate is 1), and the inline
\* value only when the instance has none.
C16_InstanceRateTakesPrecedence ==
    Emitted(SpanPath \cup LogPath) =>
        LET resolved == IF lf.sample_rate # None THEN lf.sample_rate
                        ELSE RateOf(em.input)
        IN RateOf(em.attributes) = IF Equals1(resolved) THEN None ELSE resolved

\* C17: every public span or log entry point (span, an instrument-wrapped
\* call, log, trace, debug, info, notice, warn, error, fatal) called with an
\* attribute key that starts with '_' raises ValueError before anything is
\* started or emitted; no attributes handed to a tracer hold such a key.
C17_ReservedPrefixRejected ==
    em.op \in SpanPath \cup LogPath =>
        /\ AnyReservedKey(em.input) => em.raised = "ValueError" /\ ~em.emitted
        /\ em.emitted => ~AnyReservedKey(em.attributes)

\* The sample_rate argument of the last with_trace_sample_rate call.
RateArg(e) == Get(e.input, "sample_rate")
IsRateCall(e) == e.op = "with_trace_sample_rate"

\* C18, as stated: with_trace_sample_rate called with a rate outside (0, 1]
\* raises ValueError and returns no instance, so the instance in use never
\* holds a sample rate outside (0, 1].
C18_RateOutsideHalfOpenRejected ==
    [][IsRateCall(em') =>
          /\ (Hundredths(RateArg(em')) <= 0 \/ Hundredths(RateArg(em')) > 100)
                => em'.raised = "ValueError" /\ lf' = lf
          /\ lf'.sample_rate # None
                => Hundredths(lf'.sample_rate) > 0 /\ Hundredths(lf'.sample_rate) <= 100]_vars

\* C18, amended: with_trace_sample_rate called with a rate outside [0, 1]
\* raises ValueError and returns no instance (the instance in use stays as it
\* was); called with a rate within [0, 1], 0 included, it returns an instance
\* that holds this rate and the tags of the receiver.
C18_RateOutsideClosedRejected ==
    [][IsRateCall(em') =>
          IF Hundredths(RateArg(em')) < 0 \/ Hundredths(RateArg(em')) > 100
          THEN em'.raised = "ValueError" /\ lf' = lf
          ELSE /\ em'.raised = NoExc
               /\ lf' = [tags |-> lf.tags, sample_rate |-> RateArg(em')]]_vars

\* A rate below 0 was rejected while the instance holds a rate of 0.
C18_Witness ==
    /\ IsRateCall(em) /\ em.raised = "ValueError"
    /\ RateArg(em) = FloatV(-50)
    /\ lf.sample_rate = FloatV(0)

\* The tags among attributes (the empty sequence: no such key), and what it is
\* for r to be s without its duplicates: the same items, each once, in the
\* order of their first occurrence in s.
TagsOf(attributes) ==
    IF Has(attributes, ATTRIBUTES_TAGS_KEY) THEN Get(attributes, ATTRIBUTES_TAGS_KEY).l
    ELSE <<>>
FirstIndex(s, x) == CHOOSE i \in 1..Len(s) : s[i] = x /\ \A j \in 1..(i - 1) : s[j] # x
IsDedupOf(r, s) ==
    /\ {r[i] : i \in 1..Len(r)} = {s[i] : i \in 1..Len(s)}
    /\ \A i, j \in 1..Len(r) : i < j => r[i] # r[j] /\ FirstIndex(s, r[i]) < FirstIndex(s, r[j])

\* C19: for the tags a found inline in the attributes of a call (possibly
\* absent) and the tags b of the instance, the span or log is emitted with the
\* tags of a ++ b, existing tags first, each tag once at its first occurrence;
\* when a ++ b is empty (no inline tags or an empty inline list, and no tags
\* on the instance) the merge yields none and no tags attribute is emitted.
C19_TagsMergedWithoutDuplicates ==
    Emitted(SpanPath \cup LogPath) =>
        LET s == TagsOf(em.input) \o lf.tags IN
        IF s = <<>>
        THEN /\ ~Has(em.attributes, ATTRIBUTES_TAGS_KEY)
             /\ merge_tags_into_attributes(em.input, lf.tags).tags = None
        ELSE /\ Has(em.attributes, ATTRIBUTES_TAGS_KEY)
             /\ Get(em.attributes, ATTRIBUTES_TAGS_KEY).t = "list"
             /\ IsDedupOf(TagsOf(em.attributes), s)

\* Inline tags with a duplicate met the tags of the instance, one of them
\* already inline.
C19_Witness ==
    /\ Emitted(SpanPath \cup LogPath)
    /\ TagsOf(em.input) = <<"t2", "t3", "t2">>
    /\ lf.tags = <<"t2", "t1">>
    /\ TagsOf(em.attributes) = <<"t2", "t3", "t1">>

\* The keys of m whose value is None, and the three parts of C20 for a
\* mapping m and its encoding r.
NullKeys(m) == {m[i].k : i \in {j \in 1..Len(m) : m[j].v = None}}
NoNullValues(r) == \A i \in 1..Len(r) : r[i].v # None
NonNullKeysKept(m, r) == \A k \in DictKeys(m) \ NullKeys(m) : Has(r, k)
NullArgsListNullKeys(m, r) ==
    /\ Has(r, NULL_ARGS_KEY) <=> NullKeys(m) # {}
    /\ Has(r, NULL_ARGS_KEY) =>
          LET l == Get(r, NULL_ARGS_KEY).l IN
          /\ Get(r, NULL_ARGS_KEY).t = "list"
          /\ {l[i] : i \in 1..Len(l)} = NullKeys(m)
          /\ Len(l) = Cardinality(NullKeys(m))

\* C20, as stated: for every attribute mapping m passed to a span or log
\* call, user_attributes(m) holds no None value, holds every key of m whose
\* value is not None, and holds a null_args entry if and only if m has a None
\* value, that entry listing precisely the keys of m whose value is None.
C20_EncodeCollectsNulls ==
    Emitted(SpanPath \cup LogPath) =>
        /\ NoNullValues(user_attributes(em.input))
        /\ NonNullKeysKept(em.input, user_attributes(em.input))
        /\ NullArgsListNullKeys(em.input, user_attributes(em.input))

\* C20, amended: for every attribute mapping m, user_attributes(m) holds no
\* None value and holds every key of m whose value is not None; when m does
\* not itself use the null_args key, the result holds a null_args entry if and
\* only if m has a None value, that entry listing precisely the keys of m
\* whose value is None. The attributes handed to the tracer hold no None.
C20_EncodeCollectsNullsUnlessKeyTaken ==
    Emitted(SpanPath \cup LogPath) =>
        /\ NoNullValues(user_attributes(em.input))
        /\ NonNullKeysKept(em.input, user_attributes(em.input))
        /\ ~Has(em.input, NULL_ARGS_KEY)
              => NullArgsListNullKeys(em.input, user_attributes(em.input))
        /\ NoNullValues(em.attributes)

\* A call with two None values was emitted with both keys listed, in order.
C20_Witness ==
    /\ Emitted(SpanPath \cup LogPath)
    /\ NullKeys(em.input) = {"x", "y"}
    /\ Has(em.attributes, NULL_ARGS_KEY)
    /\ Get(em.attributes, NULL_ARGS_KEY) = ListV(<<"x", "y">>)
    /\ ~Has(em.attributes, "x")

\* |v| > 2^63 - 1 for an integer v, and the warning user_attributes raises
\* for key k.
AbsExceedsMax(v) == IntGreater(v, OTLP_MAX_INT_SIZE) \/ IntGreater(IntV(-1, 1), v)
LargeIntWarning(k) == <<"Integer value is larger than the maximum OTLP integer size", k>>

\* C21: for every integer v passed under a key k to a span or log call, when
\* |v| > 2^63 - 1 (above the signed 64-bit maximum or below its negative
\* counterpart) the encoded value of k is the exact decimal string of v and a
\* warning is raised for k; otherwise the value is passed through unchanged as
\* an integer and no warning is raised; the call succeeds in both cases.
C21_IntsOutsideRangeBecomeStrings ==
    Emitted(SpanPath \cup LogPath) =>
        \A i \in 1..Len(em.input) :
            LET k == em.input[i].k
                v == em.input[i].v
            IN v.t = "int" =>
                /\ em.raised = NoExc
                /\ IF AbsExceedsMax(v)
                   THEN /\ Get(user_attributes(em.input), k) = str(v)
                        /\ Get(em.attributes, k) = str(v)
                        /\ LargeIntWarning(k) \in em.warnings
                   ELSE /\ Get(user_attributes(em.input), k) = v
                        /\ Get(em.attributes, k) = v
                        /\ LargeIntWarning(k) \notin em.warnings

\* C22: a call of log (directly or through a level method) that returns has
\* started exactly one span, with an explicit start time t; the status of the
\* span is OK, it was ended once, with end time t, and it is not left open;
\* a call that raises before the log path has started no span.
C22_LogSpanClosedAtItsStartTime ==
    em.op \in LogPath =>
        IF em.raised = NoExc
        THEN /\ em.emitted
             /\ Len(em.span) = 1
             /\ em.span[1].start_time \in Timestamps
             /\ em.span[1].attributes = em.attributes
             /\ em.span[1].status = "OK"
             /\ ~em.span[1].recording
             /\ em.span[1].end_calls = 1
             /\ em.span[1].end_time = em.span[1].start_time
             /\ em.span[1].late = {}
        ELSE em.span = <<>>

\* A log call with a level that is none, made at time 2, left a closed span.
C22_Witness ==
    /\ em.op = "log" /\ em.level = "bogus"
    /\ <<"Invalid log level", "bogus">> \in em.warnings
    /\ Len(em.span) = 1
    /\ em.span[1].start_time = 2
    /\ em.span[1].end_time = 2
    /\ em.span[1].status = "OK"
    /\ ~em.span[1].recording

\* ---------------------------------------- further claims on the exporter
\* The export calls the model knows by number: those in a call slot and those
\* that have completed, each with its batch and the result of its primary.
KnownCalls ==
    {[id |-> ex_id[c], batch |-> ex_batch[c], result |-> ex_result[c]] :
        c \in {d \in Calls : ex_id[d] # 0}}
    \cup {[id |-> r.id, batch |-> r.batch, result |-> r.result] : r \in completed}
FailedPrimary == {"raise", "FAILURE"}

\* C23: under every interleaving of concurrent export calls, a call whose
\* primary attempt failed has, once its fallback write is over, exactly one
\* entry in the fallback sink and it is its own batch; no entry of the
\* fallback sink holds a batch other than that of the call that wrote it; and
\* what a call gives its caller is determined by the result of its own
\* primary attempt.
C23_ConcurrentCallsKeepTheirBatches ==
    /\ \A c \in Calls :
          (ex_pc[c] \in {"return", "done"} /\ ex_result[c] \in FailedPrimary) =>
              ReceivedOnce(fallback_log, ex_id[c], ex_batch[c])
    /\ \A i \in 1..Len(fallback_log) :
          /\ \A k \in KnownCalls :
                k.id = fallback_log[i].id => k.batch = fallback_log[i].batch
          /\ \A j \in 1..Len(fallback_log) :
                fallback_log[j].id = fallback_log[i].id => j = i
    /\ \A r \in completed :
          /\ r.raised = (IF r.result = "raise" THEN r.exc ELSE "none")
          /\ r.ret = (IF r.result = "raise" THEN "none" ELSE "SUCCESS")

\* Two calls with different batches were in flight together, both primaries
\* failed, and the second call wrote to the fallback before the first.
C23_Witness ==
    /\ \A c \in Calls : ex_pc[c] \in {"return", "done"} /\ ex_result[c] \in FailedPrimary
    /\ Len(fallback_log) = 2
    /\ fallback_log[1].id = 2 /\ fallback_log[2].id = 1
    /\ fallback_log[1].batch # fallback_log[2].batch

\* C29: a call whose primary export succeeded returns SUCCESS, raises nothing
\* and writes nothing to the fallback sink: every entry of the fallback sink
\* belongs to a call whose primary attempt raised or returned FAILURE, and the
\* fallback sink changes only by the write of such a call.
C29_SuccessLeavesFallbackUnchanged ==
    /\ \A c \in Calls :
          ex_result[c] = "SUCCESS" =>
              /\ EntriesOf(fallback_log, ex_id[c]) = {}
              /\ ex_pc[c] = "done" => (ex_ret[c] = "SUCCESS" /\ ex_raised[c] = "none")
    /\ \A i \in 1..Len(fallback_log) :
          \A k \in KnownCalls :
              k.id = fallback_log[i].id => k.result \in FailedPrimary
    /\ [][fallback_log' # fallback_log =>
            \E c \in Calls :
                /\ ex_result[c] \in FailedPrimary
                /\ fallback_log' = Append(fallback_log,
                                          [id |-> ex_id[c], batch |-> ex_batch[c]])]_vars

\* One call's primary accepted its batch and the call returned SUCCESS, while
\* the only entry of the fallback sink is the batch of another, failed call.
C29_Witness ==
    /\ \E c \in Calls :
          /\ ex_pc[c] = "done" /\ ex_result[c] = "SUCCESS" /\ ex_ret[c] = "SUCCESS"
          /\ \E i \in 1..Len(primary_log) : primary_log[i].id = ex_id[c]
    /\ Len(fallback_log) = 1
    /\ \E r \in completed : r.result = "FAILURE" /\ r.id = fallback_log[1].id


\* ---------------------------------------------------------------- C24
Range(s) == {s[i] : i \in 1..Len(s)}
\* The positions of the parameter's environment variables that are set.
SetPositions(env_vars) == {i \in 1..Len(env_vars) : environ[env_vars[i]] # None}
FirstSet(env_vars) ==
    env_vars[CHOOSE i \in SetPositions(env_vars) : \A j \in SetPositions(env_vars) : i <= j]
\* The value a source provides, once cast to the parameter's type.
Provides(result, source, value, tp) ==
    /\ result.source = source
    /\ result.raised = NoExc =>
          IF tp = "str" THEN result.value = value
          ELSE result.value.t = "bool" \/ result.value = None
\* The source the precedence of load_param names, for a known parameter.
ResolvedInPrecedence(result, name) ==
    LET param == CONFIG_PARAMS[name]
        file == IF Has(config_from_file, name) THEN Get(config_from_file, name) ELSE None
    IN /\ IF SetPositions(param.env_vars) # {}
          THEN /\ Provides(result, FirstSet(param.env_vars),
                           environ[FirstSet(param.env_vars)], param.tp)
               /\ "config_from_file" \notin Range(result.consulted)
          ELSE IF param.allow_file_config /\ file # None
          THEN Provides(result, "config_from_file", file, param.tp)
          ELSE Provides(result, "default", param.default, param.tp)
       /\ ~param.allow_file_config => "config_from_file" \notin Range(result.consulted)

\* C24: load_param returns a non-None runtime value first, reading nothing;
\* otherwise the value of the first set environment variable in env_vars
\* order, without reading the config file; otherwise the config-file value if
\* the parameter allows file configuration; otherwise the default; the config
\* file is never read for a parameter that does not allow it.
C24_LoadParamPrecedence ==
    [][lp' # lp =>
          IF lp'.runtime # None
          THEN lp'.source = "runtime" /\ lp'.value = lp'.runtime /\ lp'.consulted = <<>>
          ELSE lp'.name \in DOMAIN CONFIG_PARAMS => ResolvedInPrecedence(lp', lp'.name)]_vars
\* base_url was loaded from the second environment variable, the first being
\* unset, while the config file has a base_url too.
C24_Witness ==
    /\ lp.name = "base_url" /\ lp.runtime = None
    /\ lp.source = "OTEL_EXPORTER_OTLP_ENDPOINT" /\ lp.value = StrV("otel-url")
    /\ environ["LOGFIRE_BASE_URL"] = None
    /\ Has(config_from_file, "base_url")


\* ---------------------------------------------------------------- C25
\* What the four steps of a scope exit leave behind on a recording span h
\* that becomes g: the token detached and cleared; the exception captured or
\* the status OK; the message rendered over the bindings; the span closed if
\* end_on_exit is true.  Status and message set after the close would be late
\* calls, which change nothing of the span.
ExitStepsDone(h, g) ==
    /\ ctx'.detached = Append(ctx.detached, self_token)
    /\ ctx'.attached = ctx.attached
    /\ self_token' = 0
    /\ IF last'.exc \in Exceptions
       THEN g.status = "ERROR" /\ Len(g.events) = Len(h.events) + 1
       ELSE g.status = "OK" /\ g.events = h.events
    /\ g.attributes[MsgKey] = Render(format_kwargs)
    /\ g.recording = ~end_on_exit
    /\ g.late = h.late

\* C25: the scope exit of an active LogfireSpan detaches and clears the
\* token, records the exception or sets the status to OK, re-renders the
\* message and then closes the span if end_on_exit is true, status and
\* message being set before the close; a scope exit with no token held
\* performs none of these steps.
C25_ExitStepsInOrder ==
    [][/\ IsLiveExit => ExitStepsDone(spans[self_span], spans'[self_span])
       /\ (IsCall("exit") /\ self_token = 0) =>
             UNCHANGED <<spans, ctx, self_token, self_span>>]_vars


\* ---------------------------------------------------------------- C26
\* C26: set_attribute on a LogfireSpan not yet started writes the pending
\* attribute map and touches no span, and the first scope entry starts the
\* span with the pending map as its attributes; on a started record the call
\* goes to the underlying span (a recording span takes the value, nothing
\* else of any span changes) and the pending map stays as it was; in both
\* cases the bindings of the template take the value under the key.
C26_SetAttributePendingOrForwarded ==
    [][/\ IsCall("set_attribute") =>
            LET k == last'.arg[1]
                v == last'.arg[2] IN
            /\ format_kwargs' = [format_kwargs EXCEPT ![k] = v]
            /\ IF self_span = 0
               THEN /\ otlp_attributes' = [otlp_attributes EXCEPT ![k] = v]
                    /\ spans' = spans
               ELSE /\ otlp_attributes' = otlp_attributes
                    /\ Len(spans') = Len(spans)
                    /\ \A i \in 1..Len(spans) : i # self_span => spans'[i] = spans[i]
                    /\ spans'[self_span].attributes =
                          IF spans[self_span].recording
                          THEN [spans[self_span].attributes EXCEPT ![k] = v]
                          ELSE spans[self_span].attributes
       /\ (IsCall("enter") /\ self_span = 0) =>
            /\ self_span' = Len(spans) + 1
            /\ spans'[self_span'].attributes = otlp_attributes]_vars

\* b was set to 1 before the first scope entry and to 2 after it: the span
\* started with b = 1 from the pending map, which still says 1, and holds 2
\* now, as the bindings do.
C26_Witness ==
    /\ last.op = "set_attribute" /\ last.arg = <<"b", "2">>
    /\ self_span # 0
    /\ spans[self_span].recording
    /\ otlp_attributes["b"] = "1"
    /\ spans[self_span].attributes["b"] = "2"
    /\ format_kwargs["b"] = "2"


\* ---------------------------------------------------------------- C27
\* C27: end_on_exit is read at scope exit: an exit of a recording span with
\* the flag false detaches the context, sets the status and re-renders the
\* message but leaves the span recording, and a later end() closes it; every
\* scope entry sets the flag to true, whatever it was before.
C27_EndOnExitReadAtExit ==
    [][/\ (IsLiveExit /\ ~end_on_exit) =>
            LET g == spans'[self_span] IN
            /\ self_token' = 0
            /\ ctx'.detached = Append(ctx.detached, self_token)
            /\ g.status \in {"OK", "ERROR"}
            /\ g.attributes[MsgKey] = Render(format_kwargs)
            /\ g.recording
            /\ g.end_calls = spans[self_span].end_calls
       /\ (IsCall("end") /\ self_span # 0) => ~spans'[self_span].recording
       /\ IsCall("enter") => end_on_exit']_vars


\* ---------------------------------------------------------------- C28
\* The tokens the context API handed to the LogfireSpan (the FastLogfireSpan
\* has its own), the last of them, and how often a token was detached.
RecordTokens == {t \in 1..ctx.attached : ~(fast.made /\ t = fast.token)}
LastRecordToken == CHOOSE t \in RecordTokens : \A u \in RecordTokens : u <= t
Detaches(t) == Cardinality({i \in 1..Len(ctx.detached) : ctx.detached[i] = t})
RecordDetaches ==
    Cardinality({i \in 1..Len(ctx.detached) : ctx.detached[i] \in RecordTokens})
TokensBalanced ==
    /\ \A t \in RecordTokens : Detaches(t) <= 1
    /\ RecordDetaches <= Cardinality(RecordTokens)
    /\ self_token # 0 <=> (RecordTokens # {} /\ Detaches(LastRecordToken) = 0)
    /\ self_token # 0 => self_token = LastRecordToken

\* C28: every token the LogfireSpan attached is detached at most once, it
\* detaches no more often than it attached, it holds a token exactly when the
\* last one it attached is not yet detached, a scope entry with a token held
\* attaches none, and end() and set_attribute() neither attach nor detach.
C28_TokensBalanced ==
    [][/\ TokensBalanced'
       /\ (IsCall("enter") /\ self_token # 0) => UNCHANGED <<ctx, self_token>>
       /\ (IsCall("enter") /\ self_token = 0) =>
             /\ ctx'.attached = ctx.attached + 1
             /\ ctx'.detached = ctx.detached
             /\ self_token' = ctx'.attached
       /\ (IsCall("end") \/ IsCall("set_attribute")) => UNCHANGED <<ctx, self_token>>]_vars

\* The record was entered twice in a row and ended by hand: one token was
\* attached, it is held, and nothing was detached.
C28_Witness ==
    /\ last.op = "end" /\ last.raised = NoExc
    /\ clock = 4
    /\ ~fast.made
    /\ ctx.attached = 1
    /\ ctx.detached = <<>>
    /\ self_token = 1

====
